---------------------------- MODULE Spec2Model ----------------------------
(***************************************************************************)
(* A model of fragmenter/fragment.py: tagging of ring systems and          *)
(* functional groups, growth of one fragment per rotatable bond,           *)
(* enumeration of connected fragment combinations and grouping of the      *)
(* fragments by their canonical encoding.                                  *)
(*                                                                         *)
(* Atoms and bonds are numbered from 1 (the toolkit numbers them from 0).  *)
(* A Wiberg bond order is kept as ten times its value, so that the         *)
(* thresholds 1.2 of the source are the integer 12.                        *)
(***************************************************************************)
EXTENDS Integers, Sequences, FiniteSets, TLC

VARIABLES
    todo,            \* molecules of the input stream not read yet
    done,            \* number of molecules read so far
    mol,             \* the molecule being processed (charged), or NoMol
    opts,            \* the options of generate_fragments
    pc,              \* position in generate_fragments / _generate_fragments
    atomFg,          \* the 'fgroup' tag written on each atom (NoTag if none)
    bondFg,          \* the 'fgroup' tag written on each bond
    atomRing,        \* the 'ringsystem' tag written on each atom (0 if none)
    tagged_rings,    \* ring system index -> [atoms, bonds]
    tagged_fgroups,  \* functional group name -> [atoms, bonds]
    cursor,          \* next bond of the loop over charged.GetBonds()
    frags,           \* rotatable bond index -> fragment
    comb_list,       \* result of GetFragmentAtomBondSetCombinations
    smiles,          \* encoding -> list of fragments
    fragments,       \* fragments['fragments']: parent encoding -> list of keys
    exc,             \* the exception that left generate_fragments, or "none"
    args,            \* the arguments of a direct call of the assembler
    stack,           \* the frames of _iterate_nbratoms in progress, innermost last
    ret              \* what the finished calls of iterate_nbratoms returned

vars == <<todo, done, mol, opts, pc, atomFg, bondFg, atomRing, tagged_rings,
          tagged_fgroups, cursor, frags, comb_list, smiles, fragments, exc, args,
          stack, ret>>

-----------------------------------------------------------------------------
(* Bounds of the model. *)

\* largest number of bonds of a molecule whose bond order is not the default
MaxConj == 1
\* largest number of functional-group matches found in a molecule
MaxGroups == 2
\* largest number of functional-group matches in a molecule handed directly
\* to tag_molecule
MaxTagGroups == 3
\* largest number of bonds off the default bond order in a chain handed
\* directly to _build_frag
MaxGrowConj == 2
\* largest number of fragments in a list handed directly to the assembler
MaxFrags == 3
\* largest rotor budget tried
MaxBudget == 2

(* Program constants. *)

\* the conjugation threshold 1.2 of iterate_nbratoms, times ten
WboThreshold == 12
\* default of MIN_ROTORS in GetFragmentAtomBondSetCombinations
DefaultMinRotors == 1
\* default of MAX_ROTORS in generate_fragments
DefaultMaxRotors == 2

\* bond orders a bond can carry: below, at and above the threshold
WboLevels == {10, 12, 15}
\* the bond order of a bond that is not conjugated: the lowest level
DefaultWbo == CHOOSE x \in WboLevels : \A y \in WboLevels : x <= y

NoMol == [n |-> 0]
NoTag == <<>>
EmptySet == [atoms |-> {}, bonds |-> {}]

-----------------------------------------------------------------------------
(* The molecular graph: what the toolkit's OEMol exposes to the code. *)

NBonds(m) == Len(m.edges)
Atoms(m) == 1..m.n
Bonds(m) == 1..Len(m.edges)
GetBgn(m, b) == m.edges[b][1]
GetEnd(m, b) == m.edges[b][2]
GetNbr(m, b, a) == IF m.edges[b][1] = a THEN m.edges[b][2] ELSE m.edges[b][1]
BondsOf(m, a) == {b \in Bonds(m) : m.edges[b][1] = a \/ m.edges[b][2] = a}
GetDegree(m, a) == Cardinality(BondsOf(m, a))
IsRotor(m, b) == b \in m.rot
AtomIsInRing(m, a) == m.parts[a] # 0
IsInRing(m, b) ==
    /\ m.parts[m.edges[b][1]] # 0
    /\ m.parts[m.edges[b][1]] = m.parts[m.edges[b][2]]
HasWbo(m, b) == m.has[b]
Wbo(m, b) == m.wbo[b]

\* atomA.GetBond(atomB): the bond's index, 0 for None
GetBond(m, a, b) ==
    IF a # b /\ \E x \in Bonds(m) : {m.edges[x][1], m.edges[x][2]} = {a, b}
    THEN CHOOSE x \in Bonds(m) : {m.edges[x][1], m.edges[x][2]} = {a, b}
    ELSE 0

\* the elements of S in increasing order.  (Here and below, CHOOSE out \in
\* {e(x) : x \in {d}} : TRUE is e(d) with d computed once.)
RECURSIVE SortedSeq(_)
SortedSeq(S) ==
    IF S = {} THEN <<>>
    ELSE CHOOSE out \in
             UNION {{<<x>> \o SortedSeq(T \ {x}) :
                        x \in {y \in T : \A z \in T : y <= z}} : T \in {S}} : TRUE

\* atom.GetAtoms(): the neighbours, in the order of the atom's bonds
GetAtoms(m, a) ==
    CHOOSE out \in {[k \in 1..Len(bs) |-> GetNbr(m, bs[k], a)] :
                       bs \in {SortedSeq(BondsOf(m, a))}} : TRUE

-----------------------------------------------------------------------------
(* Tagging: _tag_fgroups, _tag_rings, _ring_fgroup_union, tag_molecule.    *)
(* A dictionary of functional groups is the sequence of its items, in      *)
(* insertion order: [name, atoms, bonds].  A group's name is               *)
(* <<pattern, ordinal>> for the source's "<pattern>_<ordinal>".            *)

\* lines 340-345: the matches the substructure search yields for a pattern.
\* When OEParseSmarts fails (ok = FALSE) the failure is printed and the search
\* still runs, on the query as the failed parse left it; matches is then
\* what that query matches, which the toolkit decides: nothing for an empty
\* query, something for a partly built one.
MatchesOf(p) == p.matches

\* the items of _tag_fgroups' dictionary, in the order they are stored
RECURSIVE FgItems(_, _)
FgItems(lib, p) ==
    IF p > Len(lib) THEN <<>>
    ELSE LET ms == MatchesOf(lib[p])
         IN  [i \in 1..Len(ms) |->
                 [name |-> <<p, i - 1>>, atoms |-> ms[i].atoms, bonds |-> ms[i].bonds]]
             \o FgItems(lib, p + 1)

\* the tag left on an element after every match has written it: the last one
LastTag(items, x, onAtoms) ==
    LET S == {k \in 1..Len(items) :
                 x \in (IF onAtoms THEN items[k].atoms ELSE items[k].bonds)}
    IN  IF S = {} THEN NoTag
        ELSE items[CHOOSE k \in S : \A j \in S : j <= k].name

\* _tag_fgroups: the dictionary and the tags it writes on atoms and bonds
TagFgroupsOf(m) ==
    LET items == FgItems(m.lib, 1)
    IN  [dict |-> items,
         atomFg |-> [a \in Atoms(m) |-> LastTag(items, a, TRUE)],
         bondFg |-> [b \in Bonds(m) |-> LastTag(items, b, FALSE)]]

NRingSystems(m) ==
    IF m.n = 0 THEN 0
    ELSE LET S == {m.parts[a] : a \in Atoms(m)}
         IN  CHOOSE x \in S : \A y \in S : y <= x

\* _tag_rings: ring system index -> atoms and bonds, and the atoms' tags
TagRingsOf(m) ==
    [dict |-> [r \in 1..NRingSystems(m) |->
                  LET ra == {a \in Atoms(m) : m.parts[a] = r}
                  IN  [atoms |-> ra,
                       bonds |-> {b \in Bonds(m) :
                                     /\ GetBgn(m, b) \in ra
                                     /\ GetEnd(m, b) \in ra}]],
     atomRing |-> [a \in Atoms(m) |-> m.parts[a]]]

Union2(x, y) == [atoms |-> x.atoms \cup y.atoms, bonds |-> x.bonds \cup y.bonds]
SetItem(d, k, v) == [d EXCEPT ![k] = [name |-> d[k].name, atoms |-> v.atoms, bonds |-> v.bonds]]

\* itertools.combinations(keys, 2), in its order
Pairs2(n) ==
    LET S == {<<i, j>> \in (1..n) \X (1..n) : i < j}
        Before(p, q) == p[1] < q[1] \/ (p[1] = q[1] /\ p[2] <= q[2])
        RECURSIVE Ord(_)
        Ord(T) == IF T = {} THEN <<>>
                  ELSE LET x == CHOOSE y \in T : \A z \in T : Before(y, z)
                       IN  <<x>> \o Ord(T \ {x})
    IN  Ord(S)

\* lines 422-429: overlapping functional groups are combined, pair by pair
RECURSIVE MergeFgroups(_, _, _)
MergeFgroups(d, ps, k) ==
    IF k > Len(ps) THEN d
    ELSE LET g1 == ps[k][1]
             g2 == ps[k][2]
             u  == Union2(d[g1], d[g2])
         IN  IF Cardinality(d[g1].atoms \cap d[g2].atoms) > 1
             THEN MergeFgroups(SetItem(SetItem(d, g1, u), g2, u), ps, k + 1)
             ELSE MergeFgroups(d, ps, k + 1)

\* the neighbours of the shared atom with a gate that a bond order equal to
\* the threshold passes
RECURSIVE AbsorbAtThreshold(_, _, _, _, _, _, _, _)
AbsorbAtThreshold(m, rings, idx, g, atom, nbrs, k, st) ==
    IF k > Len(nbrs) \/ st.err THEN st
    ELSE IF nbrs[k] \notin st.d[g].atoms
    THEN AbsorbAtThreshold(m, rings, idx, g, atom, nbrs, k + 1, st)
    ELSE IF ~HasWbo(m, GetBond(m, nbrs[k], atom))
    THEN [st EXCEPT !.err = TRUE]
    ELSE IF \/ Wbo(m, GetBond(m, nbrs[k], atom)) >= WboThreshold
            \/ ~IsRotor(m, GetBond(m, nbrs[k], atom))
    THEN AbsorbAtThreshold(m, rings, idx, g, atom, nbrs, k + 1,
                           [st EXCEPT !.d = SetItem(st.d, g, Union2(rings[idx], st.d[g]))])
    ELSE AbsorbAtThreshold(m, rings, idx, g, atom, nbrs, k + 1, st)

\* lines 442-454: the neighbours of the shared atom; st is [d, err]
RECURSIVE ConnectingBonds(_, _, _, _, _, _, _, _)
ConnectingBonds(m, rings, idx, g, atom, nbrs, k, st) ==
    IF k > Len(nbrs) \/ st.err THEN st
    ELSE LET a == nbrs[k]
             bond == GetBond(m, a, atom)
             u == Union2(rings[idx], st.d[g])
         IN  IF a \notin st.d[g].atoms
             THEN ConnectingBonds(m, rings, idx, g, atom, nbrs, k + 1, st)
             ELSE IF ~HasWbo(m, bond)
             THEN [st EXCEPT !.err = TRUE]
             ELSE IF Wbo(m, bond) > WboThreshold \/ ~IsRotor(m, bond)
             THEN ConnectingBonds(m, rings, idx, g, atom, nbrs, k + 1,
                                  [st EXCEPT !.d = SetItem(st.d, g, u)])
             ELSE ConnectingBonds(m, rings, idx, g, atom, nbrs, k + 1, st)

\* lines 430-455: the loop over rings and functional groups, flattened;
\* j counts the (ring, group) pairs
RECURSIVE RingUnion(_, _, _, _)
RingUnion(m, rings, j, st) ==
    LET ng == Len(st.d)
    IN  IF ng = 0 \/ j >= Len(rings) * ng \/ st.err THEN st
        ELSE LET idx == (j \div ng) + 1
                 g == (j % ng) + 1
                 inter == rings[idx].atoms \cap st.d[g].atoms
             IN  IF Cardinality(inter) > 1
                 THEN RingUnion(m, rings, j + 1,
                                [st EXCEPT !.d = SetItem(st.d, g, Union2(rings[idx], st.d[g]))])
                 ELSE IF Cardinality(inter) > 0
                 THEN LET atom == CHOOSE x \in inter : TRUE
                      IN  RingUnion(m, rings, j + 1,
                                    ConnectingBonds(m, rings, idx, g, atom,
                                                    GetAtoms(m, atom), 1, st))
                 ELSE RingUnion(m, rings, j + 1, st)

\* _ring_fgroup_union: [d |-> the reconciled dictionary, err |-> a ValueError
\* left the function (a connecting bond carries no WibergBondOrder)]
RingFgroupUnion(m, rings, fgs) ==
    RingUnion(m, rings, 0,
              [d |-> MergeFgroups(fgs, Pairs2(Len(fgs)), 1), err |-> FALSE])

\* fgroup_tagged[name]
Lookup(d, name) ==
    LET k == CHOOSE j \in 1..Len(d) : d[j].name = name
    IN  [atoms |-> d[k].atoms, bonds |-> d[k].bonds]

-----------------------------------------------------------------------------
(* Growth: _is_fgroup, _is_ortho, _ring_substiuents, iterate_nbratoms,     *)
(* _build_frag.  The context c holds what the functions read and never     *)
(* change: [m, rings, fg, aFg, aRing] (the molecule, tagged_rings,         *)
(* fgroup_tagged and the tags on the atoms).                               *)

Ctx(m, rings, fg, aFg, aRing) ==
    [m |-> m, rings |-> rings, fg |-> fg, aFg |-> aFg, aRing |-> aRing]

\* _is_fgroup(fgroup_tagged, element=a): False (here EmptySet with ok = FALSE)
\* when the atom carries no 'fgroup' tag
IsFgroup(c, a) ==
    IF c.aFg[a] = NoTag THEN [ok |-> FALSE, atoms |-> {}, bonds |-> {}]
    ELSE LET g == Lookup(c.fg, c.aFg[a])
         IN  [ok |-> TRUE, atoms |-> g.atoms, bonds |-> g.bonds]

\* the bonds of the two atoms of a bond
Attached(m, b) == BondsOf(m, GetBgn(m, b)) \cup BondsOf(m, GetEnd(m, b))

\* _is_ortho(bond, rot_bond, next_bond)
IsOrtho(m, bond, rot_bond, next_bond) ==
    LET bond_attached == Attached(m, bond)
        rot_attached == Attached(m, rot_bond)
        intersection == bond_attached \cap rot_attached
    IN  IF intersection = {} /\ ~IsInRing(m, next_bond)
        THEN (bond_attached \cap Attached(m, next_bond)) # {}
        ELSE intersection # {}

\* the (ring atom, neighbour) pairs in the order the two loops of
\* _ring_substiuents visit them
RECURSIVE RingNbrPairs(_, _, _)
RingNbrPairs(m, ratoms, k) ==
    IF k > Len(ratoms) THEN <<>>
    ELSE CHOOSE out \in
             {[j \in 1..Len(nb) |-> <<ratoms[k], nb[j]>>] \o RingNbrPairs(m, ratoms, k + 1) :
                 nb \in {GetAtoms(m, ratoms[k])}} : TRUE

\* lines 751-752 and 757-758, 761-763: the atom, its bond and the atom's
\* functional group are kept
KeepSubstituent(rs, a, rs_bond, fgroup) ==
    [atoms |-> rs.atoms \cup {a} \cup fgroup.atoms,
     bonds |-> rs.bonds \cup {rs_bond} \cup fgroup.bonds]

\* lines 770-773: the bond and the neighbouring ring system are kept
KeepRing(rs, rs_bond, ring) ==
    [atoms |-> rs.atoms \cup ring.atoms,
     bonds |-> rs.bonds \cup {rs_bond} \cup ring.bonds]

\* lines 747-773 for neighbour a of a ring atom, rs_bond being their bond
RingSubstituentAt(c, bond, rotor_bond, ring_idx, a, rs_bond, rs) ==
    IF ~AtomIsInRing(c.m, a)
    THEN IF ~IsRotor(c.m, rs_bond) \/ IsOrtho(c.m, rs_bond, rotor_bond, bond)
         THEN KeepSubstituent(rs, a, rs_bond, IsFgroup(c, a))
         ELSE rs
    ELSE IF c.aRing[a] # ring_idx /\ IsOrtho(c.m, rs_bond, rotor_bond, bond)
    THEN KeepRing(rs, rs_bond, c.rings[c.aRing[a]])
    ELSE rs

\* the body of the inner loop of _ring_substiuents, for neighbour a of atom
RingSubstituentStep(c, bond, rotor_bond, ring_idx, atom, a, rs) ==
    IF a \in rs.atoms THEN rs
    ELSE RingSubstituentAt(c, bond, rotor_bond, ring_idx, a, GetBond(c.m, atom, a), rs)

RECURSIVE RingSubstituentsLoop(_, _, _, _, _, _, _)
RingSubstituentsLoop(c, bond, rotor_bond, ring_idx, ps, k, rs) ==
    IF k > Len(ps) THEN rs
    ELSE CHOOSE out \in
             {RingSubstituentsLoop(c, bond, rotor_bond, ring_idx, ps, k + 1, next) :
                 next \in {RingSubstituentStep(c, bond, rotor_bond, ring_idx,
                                               ps[k][1], ps[k][2], rs)}} : TRUE

\* _ring_substiuents(mol, bond, rotor_bond, tagged_rings, ring_idx, fgroup_tagged)
RingSubstituents(c, bond, rotor_bond, ring_idx) ==
    CHOOSE out \in
        {RingSubstituentsLoop(c, bond, rotor_bond, ring_idx, ps, 1, EmptySet) :
            ps \in {RingNbrPairs(c.m, SortedSeq(c.rings[ring_idx].atoms), 1)}} : TRUE

(* A frame of _iterate_nbratoms.  A and B are the sets the names atoms_2   *)
(* and bonds_2 are bound to.  The caller's sets are passed by reference:   *)
(* add() changes the caller's set, while atoms_2 = atoms_2.union(..)       *)
(* binds the name to a new set and leaves the caller's as it was.  det     *)
(* says the names were rebound; pA and pB are then the sets passed in.     *)
(* The value the recursive call returns is dropped by the caller           *)
(* (line 711), so what a recursive call contributes is Passed(frame).      *)

Frame(A, B, i) ==
    [A |-> A, B |-> B, det |-> FALSE, pA |-> {}, pB |-> {}, i |-> i, err |-> FALSE]

Passed(st) ==
    IF st.det THEN [atoms |-> st.pA, bonds |-> st.pB]
    ELSE [atoms |-> st.A, bonds |-> st.B]

\* atoms_2.add(x)
AddAtom(st, x) == [st EXCEPT !.A = @ \cup {x}]
\* bonds_2.add(x)
AddBond(st, x) == [st EXCEPT !.B = @ \cup {x}]
\* atoms_2 = atoms_2.union(s.atoms); bonds_2 = bonds_2.union(s.bonds)
Rebind(st, s) ==
    [st EXCEPT !.A = @ \cup s.atoms, !.B = @ \cup s.bonds, !.det = TRUE,
               !.pA = IF st.det THEN @ ELSE st.A,
               !.pB = IF st.det THEN @ ELSE st.B]

\* lines 666-673 and 683-692: the ring system and its substituents
AbsorbRing(c, st, ring_idx, next_bond, rotor_bond) ==
    Rebind(Rebind(st, c.rings[ring_idx]),
           RingSubstituents(c, next_bond, rotor_bond, ring_idx))

RECURSIVE IterateLoop(_, _, _, _, _, _, _)
RECURSIVE ExtendLoop(_, _, _, _, _, _, _)

\* a.GetData('ringsystem') and a.GetData('fgroup') both succeed
BothTags(c, x) == c.aRing[x] # 0 /\ c.aFg[x] # NoTag

\* lines 652-674: the bond to a is in bonds_2 already
VisitKnown(c, rotor_bond, atom, a, st, next_bond) ==
    IF BothTags(c, a) \/ BothTags(c, atom)
    THEN AbsorbRing(c, st, IF BothTags(c, a) THEN c.aRing[a] ELSE c.aRing[atom],
                    next_bond, rotor_bond)
    ELSE st

\* lines 682-692
AbsorbNbrRing(c, rotor_bond, a, st, next_bond) ==
    IF AtomIsInRing(c.m, a)
    THEN AbsorbRing(c, st, c.aRing[a], next_bond, rotor_bond)
    ELSE st

\* lines 693-696
AbsorbFgroup(st, fgroup) == IF fgroup.ok THEN Rebind(st, fgroup) ELSE st

\* lines 651-697 for neighbour a of atom, next_bond being their bond and a
\* being in atoms_2 already; go: the loop over a's neighbours follows
VisitAt(c, rotor_bond, atom, a, st, next_bond) ==
    IF next_bond \in st.B
    THEN [go |-> FALSE, st |-> VisitKnown(c, rotor_bond, atom, a, st, next_bond)]
    ELSE IF st.i > 0 /\ ~HasWbo(c.m, next_bond)
    THEN [go |-> FALSE, st |-> [st EXCEPT !.err = TRUE]]
    ELSE IF st.i > 0 /\ Wbo(c.m, next_bond) < WboThreshold
    THEN [go |-> FALSE, st |-> st]
    ELSE [go |-> TRUE,
          st |-> AbsorbFgroup(AbsorbNbrRing(c, rotor_bond, a, AddBond(st, next_bond),
                                            next_bond),
                              IsFgroup(c, a))]

\* lines 647-697: the body of the loop over the neighbours a of atom, up to
\* the loop over a's own neighbours
VisitNbr(c, rotor_bond, atom, a, st) ==
    VisitAt(c, rotor_bond, atom, a, AddAtom(st, a), GetBond(c.m, a, atom))

\* lines 708-711, after the recursive call left sub: the sets passed to the
\* call are what the caller keeps
AfterCall(st, nb_a, nn_bond, sub) ==
    [st EXCEPT !.A = Passed(sub).atoms, !.B = Passed(sub).bonds,
               !.i = @ + 1, !.err = sub.err]

\* line 701 and 703-706: the bond is followed
Follows(m, a, nb_a, nn_bond, st) ==
    /\ Wbo(m, nn_bond) > WboThreshold
    /\ ~IsInRing(m, nn_bond)
    /\ nn_bond \notin st.B
    /\ GetDegree(m, a) # 1
    /\ GetDegree(m, nb_a) # 1

\* lines 700-711 for neighbour nb_a of a, nn_bond being their bond
ExtendAt(c, pair, a, nb_a, nn_bond, st) ==
    IF ~HasWbo(c.m, nn_bond) THEN [st EXCEPT !.err = TRUE]
    ELSE IF Follows(c.m, a, nb_a, nn_bond, st)
    THEN AfterCall(st, nb_a, nn_bond,
                   IterateLoop(c, nn_bond, nb_a, pair, GetAtoms(c.m, nb_a), 1,
                               Frame(st.A \cup {nb_a}, st.B \cup {nn_bond}, st.i + 1)))
    ELSE st

\* lines 699-711: the loop over the neighbours nb_a of a
ExtendLoop(c, rotor_bond, pair, a, nbrs, j, st) ==
    IF j > Len(nbrs) \/ st.err THEN st
    ELSE ExtendLoop(c, rotor_bond, pair, a, nbrs, j + 1,
                    ExtendAt(c, pair, a, nbrs[j], GetBond(c.m, a, nbrs[j]), st))

\* lines 698-711 after neighbour a was visited with outcome v
AfterVisit(c, rotor_bond, pair, a, v) ==
    IF v.go THEN ExtendLoop(c, rotor_bond, pair, a, GetAtoms(c.m, a), 1, v.st)
    ELSE v.st

\* lines 644-712: the loop over the neighbours of atom
IterateLoop(c, rotor_bond, atom, pair, nbrs, k, st) ==
    IF k > Len(nbrs) \/ st.err THEN st
    ELSE IterateLoop(c, rotor_bond, atom, pair, nbrs, k + 1,
             IF nbrs[k] = pair THEN st
             ELSE AfterVisit(c, rotor_bond, pair, nbrs[k],
                             VisitNbr(c, rotor_bond, atom, nbrs[k], st)))

\* iterate_nbratoms(mol, rotor_bond, atom, pair, fgroup_tagged, tagged_rings)
Returned(st) == [atoms |-> st.A, bonds |-> st.B, err |-> st.err]

IterateNbrAtoms(c, rotor_bond, atom, pair) ==
    Returned(IterateLoop(c, rotor_bond, atom, pair, GetAtoms(c.m, atom), 1,
                         Frame({}, {}, 0)))

\* a join that keeps only what the two traversals found
JoinNeighbours(bond, beg, end, n1, n2) ==
    [atoms |-> n1.atoms \cup n2.atoms,
     bonds |-> n1.bonds \cup n2.bonds,
     err |-> n1.err \/ n2.err]

\* a growth that stops at the bond: its two atoms and nothing else
BondOnly(c, bond) ==
    [atoms |-> {GetBgn(c.m, bond), GetEnd(c.m, bond)}, bonds |-> {bond}, err |-> FALSE]

\* _build_frag(bond, mol, tagged_fgroups, tagged_rings); err: a ValueError
\* left the function (a bond read for its WibergBondOrder carries none)
JoinTraversals(bond, beg, end, n1, n2) ==
    [atoms |-> {beg} \cup n1.atoms \cup {end} \cup n2.atoms,
     bonds |-> {bond} \cup n1.bonds \cup n2.bonds,
     err |-> n1.err \/ n2.err]

BuildFrag(c, bond) ==
    JoinTraversals(bond, GetBgn(c.m, bond), GetEnd(c.m, bond),
                   IterateNbrAtoms(c, bond, GetBgn(c.m, bond), GetEnd(c.m, bond)),
                   IterateNbrAtoms(c, bond, GetEnd(c.m, bond), GetBgn(c.m, bond)))

-----------------------------------------------------------------------------
(* Assembly: IsAdjacentAtomBondSets, CountRotorsInFragment,                *)
(* IsAdjacentAtomBondSetCombination, TraverseFragments,                    *)
(* CombineAndConnectAtomBondSets, GetFragmentAtomBondSetCombinations.      *)
(* A fragment is [atoms, bonds, of]: of is empty for a fragment built on   *)
(* a rotatable bond, and for a combination it is the positions in the      *)
(* fragment list of the fragments it was combined from.                    *)

Fragment(atoms, bonds, of) == [atoms |-> atoms, bonds |-> bonds, of |-> of]

IsAdjacentAtomBondSets(m, fragA, fragB) ==
    \E atomA \in fragA.atoms : \E atomB \in fragB.atoms : GetBond(m, atomA, atomB) # 0

CountRotorsInFragment(m, fragment) ==
    Cardinality({b \in fragment.bonds : IsRotor(m, b)})

\* a traversal that marks the fragments adjacent to actfrag and goes no further
RECURSIVE TraverseDirect(_, _, _, _, _, _)
TraverseDirect(m, actfrag, fraglist, parts, nrparts, idx) ==
    IF idx > Len(fraglist) THEN parts
    ELSE IF parts[idx] # 0 \/ ~IsAdjacentAtomBondSets(m, actfrag, fraglist[idx])
    THEN TraverseDirect(m, actfrag, fraglist, parts, nrparts, idx + 1)
    ELSE TraverseDirect(m, actfrag, fraglist, [parts EXCEPT ![idx] = nrparts],
                        nrparts, idx + 1)

\* TraverseFragments(actfrag, fraglist, parts, nrparts): parts is a list the
\* callers share, so the result is the list as the call leaves it
RECURSIVE TraverseFragments(_, _, _, _, _, _)
TraverseFragments(m, actfrag, fraglist, parts, nrparts, idx) ==
    IF idx > Len(fraglist) THEN parts
    ELSE IF parts[idx] # 0 \/ ~IsAdjacentAtomBondSets(m, actfrag, fraglist[idx])
    THEN TraverseFragments(m, actfrag, fraglist, parts, nrparts, idx + 1)
    ELSE TraverseFragments(m, actfrag, fraglist,
             TraverseFragments(m, fraglist[idx], fraglist,
                               [parts EXCEPT ![idx] = nrparts], nrparts, 1),
             nrparts, idx + 1)

\* the loop of IsAdjacentAtomBondSetCombination; the result is nrparts
RECURSIVE CountParts(_, _, _, _, _)
CountParts(m, fraglist, parts, nrparts, idx) ==
    IF idx > Len(fraglist) THEN nrparts
    ELSE IF parts[idx] # 0 THEN CountParts(m, fraglist, parts, nrparts, idx + 1)
    ELSE CountParts(m, fraglist,
             TraverseFragments(m, fraglist[idx], fraglist,
                               [parts EXCEPT ![idx] = nrparts + 1], nrparts + 1, 1),
             nrparts + 1, idx + 1)

IsAdjacentAtomBondSetCombination(m, fraglist) ==
    CountParts(m, fraglist, [k \in 1..Len(fraglist) |-> 0], 0, 1) = 1

\* CombineAndConnectAtomBondSets(fraglist): the union, and every bond of the
\* molecule between two atoms of the union
CombineAndConnectAtomBondSets(m, fraglist) ==
    LET atoms == UNION {fraglist[k].atoms : k \in 1..Len(fraglist)}
        bonds == UNION {fraglist[k].bonds : k \in 1..Len(fraglist)}
    IN  [atoms |-> atoms,
         bonds |-> bonds \cup {b \in Bonds(m) : GetBgn(m, b) \in atoms /\ GetEnd(m, b) \in atoms}]

\* itertools.combinations(1..n, k) over positions, from position lo on
RECURSIVE Combinations(_, _, _)
Combinations(lo, n, k) ==
    IF k = 0 THEN << <<>> >>
    ELSE IF lo > n THEN <<>>
    ELSE LET with == Combinations(lo + 1, n, k - 1)
         IN  [j \in 1..Len(with) |-> <<lo>> \o with[j]] \o Combinations(lo + 1, n, k)

\* the sizes n the outer loop of GetFragmentAtomBondSetCombinations takes:
\* range(1, nrfrags)
CombinationSizes(nrfrags) == 1..(nrfrags - 1)

\* every combination tried, in the order of the two loops
RECURSIVE AllCombinations(_, _)
AllCombinations(nrfrags, n) ==
    IF n \notin CombinationSizes(nrfrags) THEN <<>>
    ELSE Combinations(1, nrfrags, n) \o AllCombinations(nrfrags, n + 1)

Pick(fraglist, t) == [k \in 1..Len(t) |-> fraglist[t[k]]]

\* the test of line 1247 on the combined and connected fragment
WithinRotors(m, frag, MAX_ROTORS, MIN_ROTORS) ==
    /\ CountRotorsInFragment(m, frag) <= MAX_ROTORS
    /\ CountRotorsInFragment(m, frag) >= MIN_ROTORS

\* a test that counts the rotors of the members' own bonds, before the bonds
\* between atoms of the union are added
AppendedBeforeClosure(m, fraglist, t, MAX_ROTORS, MIN_ROTORS) ==
    /\ IsAdjacentAtomBondSetCombination(m, Pick(fraglist, t))
    /\ WithinRotors(m, [bonds |-> UNION {fraglist[t[k]].bonds : k \in 1..Len(t)}],
                    MAX_ROTORS, MIN_ROTORS)

\* lines 1243-1248 for one combination: is it appended
Appended(m, fraglist, t, MAX_ROTORS, MIN_ROTORS) ==
    /\ IsAdjacentAtomBondSetCombination(m, Pick(fraglist, t))
    /\ WithinRotors(m, CombineAndConnectAtomBondSets(m, Pick(fraglist, t)),
                    MAX_ROTORS, MIN_ROTORS)

GetFragmentAtomBondSetCombinations(m, fraglist, MAX_ROTORS, MIN_ROTORS) ==
    LET all == AllCombinations(Len(fraglist), 1)
        kept == SelectSeq(all, LAMBDA t : Appended(m, fraglist, t, MAX_ROTORS, MIN_ROTORS))
    IN  [j \in 1..Len(kept) |->
            LET frag == CombineAndConnectAtomBondSets(m, Pick(fraglist, kept[j]))
            IN  Fragment(frag.atoms, frag.bonds, kept[j])]

-----------------------------------------------------------------------------
(* Encoding: frag_to_smiles, smiles_with_combined.                         *)

\* OESubsetMol followed by OEMolToSmiles: the canonical encoding of the
\* substructure a fragment induces.  The toolkit's string is a function of
\* the substructure up to renumbering; it is modelled by one such function:
\* how many atoms of the substructure have 0, 1, 2, 3, 4 bonds in it, and
\* how many of its bonds are ring bonds.
Encode(m, frag) ==
    LET bs == {b \in frag.bonds : GetBgn(m, b) \in frag.atoms /\ GetEnd(m, b) \in frag.atoms}
        deg(a) == Cardinality(bs \cap BondsOf(m, a))
    IN  [d \in 1..5 |-> Cardinality({a \in frag.atoms : deg(a) = d - 1})]
        \o <<Cardinality({b \in bs : IsInRing(m, b)})>>

\* a dictionary with a list of its own for every fragment
OneListEach(m, fl, k, d) ==
    [j \in 1..Len(fl) |-> [key |-> Encode(m, fl[j]), list |-> <<fl[j]>>]]

\* frag_to_smiles(frags, mol, OESMILESFlag): a dictionary as the sequence of
\* its items [key, list], keys in the order they were first met
RECURSIVE FragToSmiles(_, _, _, _)
FragToSmiles(m, fl, k, d) ==
    IF k > Len(fl) THEN d
    ELSE LET s == Encode(m, fl[k])
             at == {j \in 1..Len(d) : d[j].key = s}
         IN  IF at = {}
             THEN FragToSmiles(m, fl, k + 1, Append(d, [key |-> s, list |-> <<fl[k]>>]))
             ELSE LET j == CHOOSE x \in at : TRUE
                  IN  FragToSmiles(m, fl, k + 1,
                                   [d EXCEPT ![j].list = Append(@, fl[k])])

\* a list of the combinations alone
CombinationsOnly(comb, frag_list) == comb

\* line 857: combined_list = comb_list + frag_list
CombinedList(comb, frag_list) == comb \o frag_list

\* list(smiles.keys())
Keys(d) == [j \in 1..Len(d) |-> d[j].key]

\* list(frags.values()): the fragments in the order their bonds were met
FragList(fr) ==
    LET ks == SortedSeq(DOMAIN fr)
    IN  [j \in 1..Len(ks) |-> fr[ks[j]]]

-----------------------------------------------------------------------------
(* The molecules the model is run on.  A molecule is what the toolkit and  *)
(* the charge calculation hand to the code: n atoms, the bonds (edges),    *)
(* the ring system of each atom (parts, 0 outside rings; a bond is a ring  *)
(* bond iff both its atoms are in one ring system), the rotatable bonds    *)
(* (rot), each bond's WibergBondOrder (wbo) and whether it carries one     *)
(* (has), and the matches of the functional-group patterns (lib).          *)

Mk(n, edges, parts, rot) ==
    [n |-> n, edges |-> edges, parts |-> parts, rot |-> rot,
     wbo |-> [b \in 1..Len(edges) |-> DefaultWbo],
     has |-> [b \in 1..Len(edges) |-> TRUE],
     lib |-> <<>>]

\* two atoms and no rotatable bond
Ethane == Mk(2, << <<1, 2>> >>, <<0, 0>>, {})
\* C-C-C-C with its three bonds rotatable
Butane == Mk(4, << <<1, 2>>, <<2, 3>>, <<3, 4>> >>, <<0, 0, 0, 0>>, {1, 2, 3})
\* a chain of six atoms; the bonds between non-terminal atoms are rotatable
Hexane == Mk(6, << <<1, 2>>, <<2, 3>>, <<3, 4>>, <<4, 5>>, <<5, 6>> >>,
             <<0, 0, 0, 0, 0, 0>>, {2, 3, 4})
\* a chain of four atoms with two more atoms on the fourth
Branched == Mk(6, << <<1, 2>>, <<2, 3>>, <<3, 4>>, <<4, 5>>, <<4, 6>> >>,
               <<0, 0, 0, 0, 0, 0>>, {2, 3})
\* a three-membered ring (atoms 1-3) carrying a chain of four atoms
Ring3Chain == Mk(7, << <<1, 2>>, <<2, 3>>, <<1, 3>>, <<3, 4>>, <<4, 5>>, <<5, 6>>, <<6, 7>> >>,
                 <<1, 1, 1, 0, 0, 0, 0>>, {4, 5, 6})
\* a four-membered ring (atoms 1-4) carrying a chain of four atoms
Ring4Chain == Mk(8, << <<1, 2>>, <<2, 3>>, <<3, 4>>, <<1, 4>>, <<4, 5>>, <<5, 6>>, <<6, 7>>,
                       <<7, 8>> >>,
                 <<1, 1, 1, 1, 0, 0, 0, 0>>, {5, 6, 7})
\* two rings joined by a rotatable bond, one ring with a methyl next to it
Biaryl == Mk(7, << <<1, 2>>, <<2, 3>>, <<1, 3>>, <<4, 5>>, <<5, 6>>, <<4, 6>>, <<3, 4>>,
                   <<2, 7>> >>,
             <<1, 1, 1, 2, 2, 2, 0>>, {7})
\* a four-membered ring with an ethyl on atom 1 and an ethyl on atom 2
OrthoRing == Mk(8, << <<1, 2>>, <<2, 3>>, <<3, 4>>, <<1, 4>>, <<1, 5>>, <<5, 6>>, <<2, 7>>,
                      <<7, 8>> >>,
                <<1, 1, 1, 1, 0, 0, 0, 0>>, {5, 7})
\* a chain of six atoms with one more atom on the third
ForkedChain == Mk(7, << <<1, 2>>, <<2, 3>>, <<3, 4>>, <<4, 5>>, <<5, 6>>, <<3, 7>> >>,
                  <<0, 0, 0, 0, 0, 0, 0>>, {2, 3, 4})

Skeletons ==
    {Ethane, Butane, Hexane, Branched, ForkedChain, Ring3Chain, Ring4Chain, Biaryl, OrthoRing}

\* the bond orders that differ from the default on the bonds of S
WboChoices(sk, S) ==
    {[b \in Bonds(sk) |-> IF b \in S THEN f[b] ELSE DefaultWbo] :
        f \in [S -> WboLevels \ {DefaultWbo}]}

\* a skeleton with at most k bonds off the default bond order
Conjugated(sk, k) ==
    {[sk EXCEPT !.wbo = w] :
        w \in UNION {WboChoices(sk, S) :
                        S \in {T \in SUBSET Bonds(sk) : Cardinality(T) <= k}}}

\* a chain 1-2-3 whose third atom carries two arms of three atoms each
TwoArms == Mk(9, << <<1, 2>>, <<2, 3>>, <<3, 4>>, <<4, 5>>, <<5, 6>>, <<3, 7>>, <<7, 8>>,
                    <<8, 9>> >>,
              <<0, 0, 0, 0, 0, 0, 0, 0, 0>>, {2, 3, 4, 6, 7})

\* the two arms with any of their middle bonds (the bonds between two atoms
\* of degree two) off the default bond order
ConjugatedArms ==
    {[TwoArms EXCEPT !.wbo = w] :
        w \in UNION {WboChoices(TwoArms, S) :
                        S \in SUBSET {e \in Bonds(TwoArms) :
                                         /\ GetDegree(TwoArms, GetBgn(TwoArms, e)) = 2
                                         /\ GetDegree(TwoArms, GetEnd(TwoArms, e)) = 2}}}

\* a four-membered ring (atoms 1-4) with a chain of three atoms on atom 1, a
\* three-membered ring (atoms 8-10) on atom 2, and an ethyl and a methyl on
\* atom 3
SubstitutedRing ==
    Mk(13, << <<1, 2>>, <<2, 3>>, <<3, 4>>, <<1, 4>>, <<1, 5>>, <<5, 6>>, <<6, 7>>,
              <<2, 8>>, <<8, 9>>, <<9, 10>>, <<8, 10>>, <<3, 11>>, <<11, 12>>,
              <<3, 13>> >>,
       <<1, 1, 1, 1, 0, 0, 0, 2, 2, 2, 0, 0, 0>>, {5, 6, 8, 12})

\* a skeleton without any bond order, or with one bond lacking its own
Uncharged(sk) ==
    {[sk EXCEPT !.has = [b \in Bonds(sk) |-> FALSE]]}
    \cup {[sk EXCEPT !.has[k] = FALSE] : k \in Bonds(sk)}

\* what a pattern can match: a bond with its two atoms, or two bonds that
\* share an atom with their three atoms
Matches(sk) ==
    {[atoms |-> {GetBgn(sk, b), GetEnd(sk, b)}, bonds |-> {b}] : b \in Bonds(sk)}
    \cup {[atoms |-> {GetBgn(sk, b), GetEnd(sk, b), GetBgn(sk, c), GetEnd(sk, c)},
           bonds |-> {b, c}] :
             <<b, c>> \in {p \in Bonds(sk) \X Bonds(sk) :
                             /\ p[1] < p[2]
                             /\ Attached(sk, p[1]) \cap {p[2]} # {}}}

\* the libraries with k patterns, each matching once
RECURSIVE Libraries(_, _)
Libraries(sk, k) ==
    IF k = 0 THEN {<<>>}
    ELSE {Append(l, [ok |-> TRUE, matches |-> <<x>>]) :
             l \in Libraries(sk, k - 1), x \in Matches(sk)}

\* a skeleton with a pattern that fails to parse, leaving a query that
\* matches nothing or once, alone or followed by a pattern that parses
Unparsed(sk) ==
    {[sk EXCEPT !.lib = <<[ok |-> FALSE, matches |-> q]>> \o rest] :
        q \in {<<>>} \cup {<<x>> : x \in Matches(sk)},
        rest \in {<<>>} \cup Libraries(sk, 1)}

\* a skeleton with one to k functional groups
Grouped(sk, k) ==
    {[sk EXCEPT !.lib = l] : l \in UNION {Libraries(sk, j) : j \in 1..k}}

\* the substituted ring with two functional groups, each a bond of the
\* four-membered ring together with a bond from it to an atom outside it
SpanningGroups ==
    {[SubstitutedRing EXCEPT !.lib = <<[ok |-> TRUE, matches |-> <<x>>],
                                       [ok |-> TRUE, matches |-> <<y>>]>>] :
        x, y \in {g \in Matches(SubstitutedRing) :
                     /\ Cardinality(g.bonds) = 2
                     /\ \E e \in g.bonds : IsInRing(SubstitutedRing, e)
                     /\ \E e \in g.bonds :
                            Cardinality({a \in {GetBgn(SubstitutedRing, e),
                                                GetEnd(SubstitutedRing, e)} :
                                            SubstitutedRing.parts[a] = 1}) = 1}}

\* the options of generate_fragments that the model varies
Options ==
    {[combinatorial |-> FALSE, MAX_ROTORS |-> DefaultMaxRotors]}
    \cup {[combinatorial |-> TRUE, MAX_ROTORS |-> x] : x \in 1..MaxBudget}

NoArgs == [fraglist |-> <<>>, MAX_ROTORS |-> 0, MIN_ROTORS |-> 0]

-----------------------------------------------------------------------------
(* generate_fragments and _generate_fragments as a state machine. *)

\* the state before the first molecule of the stream is read
Start(stream, o) ==
    /\ todo = stream
    /\ done = 0
    /\ mol = NoMol
    /\ opts = o
    /\ pc = "read"
    /\ atomFg = <<>> /\ bondFg = <<>> /\ atomRing = <<>>
    /\ tagged_rings = <<>>
    /\ tagged_fgroups = <<>>
    /\ cursor = 0
    /\ frags = <<>>
    /\ comb_list = <<>>
    /\ smiles = <<>>
    /\ fragments = <<>>
    /\ exc = "none"
    /\ args = NoArgs
    /\ stack = <<>>
    /\ ret = <<>>

\* lines 238-246: OEReadMolecule yields the next molecule, which is charged
ReadMolecule ==
    /\ pc = "read"
    /\ todo # <<>>
    /\ mol' = Head(todo)
    /\ todo' = Tail(todo)
    /\ done' = done + 1
    /\ pc' = "check"
    /\ atomFg' = [a \in Atoms(Head(todo)) |-> NoTag]
    /\ bondFg' = [b \in Bonds(Head(todo)) |-> NoTag]
    /\ atomRing' = [a \in Atoms(Head(todo)) |-> 0]
    /\ tagged_rings' = <<>>
    /\ tagged_fgroups' = <<>>
    /\ cursor' = 0
    /\ frags' = <<>>
    /\ comb_list' = <<>>
    /\ smiles' = <<>>
    /\ UNCHANGED <<opts, fragments, exc, args, stack, ret>>

\* lines 238, 265-270: the stream is exhausted and the dictionary returned
Return ==
    /\ pc = "read"
    /\ todo = <<>>
    /\ pc' = "returned"
    /\ UNCHANGED <<todo, done, mol, opts, atomFg, bondFg, atomRing, tagged_rings,
                   tagged_fgroups, cursor, frags, comb_list, smiles, fragments, exc, args, stack, ret>>

\* lines 292-298: the first bond is asked for its WibergBondOrder
WboMissing(m) == NBonds(m) > 0 /\ ~HasWbo(m, 1)

CheckWbo ==
    /\ pc = "check"
    /\ pc' = IF WboMissing(mol) THEN "skip" ELSE "tag_fgroups"
    /\ UNCHANGED <<todo, done, mol, opts, atomFg, bondFg, atomRing, tagged_rings,
                   tagged_fgroups, cursor, frags, comb_list, smiles, fragments, exc, args, stack, ret>>

\* lines 247-249: _generate_fragments returned False
SkipMolecule ==
    /\ pc = "skip"
    /\ pc' = "read"
    /\ UNCHANGED <<todo, done, mol, opts, atomFg, bondFg, atomRing, tagged_rings,
                   tagged_fgroups, cursor, frags, comb_list, smiles, fragments, exc, args, stack, ret>>

\* line 482
TagFgroups ==
    /\ pc = "tag_fgroups"
    /\ tagged_fgroups' = TagFgroupsOf(mol).dict
    /\ atomFg' = TagFgroupsOf(mol).atomFg
    /\ bondFg' = TagFgroupsOf(mol).bondFg
    /\ pc' = "tag_rings"
    /\ UNCHANGED <<todo, done, mol, opts, atomRing, tagged_rings,
                   cursor, frags, comb_list, smiles, fragments, exc, args, stack, ret>>

\* line 483
TagRings ==
    /\ pc = "tag_rings"
    /\ tagged_rings' = TagRingsOf(mol).dict
    /\ atomRing' = TagRingsOf(mol).atomRing
    /\ pc' = "union"
    /\ UNCHANGED <<todo, done, mol, opts, atomFg, bondFg, tagged_fgroups,
                   cursor, frags, comb_list, smiles, fragments, exc, args, stack, ret>>

\* lines 485-487 and 303
ReconcileTags ==
    /\ pc = "union"
    /\ \E r \in {RingFgroupUnion(mol, tagged_rings, tagged_fgroups)} :
           IF r.err
           THEN /\ pc' = "raised"
                /\ exc' = "ValueError"
                /\ UNCHANGED <<tagged_fgroups, cursor>>
           ELSE /\ pc' = "grow"
                /\ tagged_fgroups' = r.d
                /\ cursor' = 1
                /\ exc' = exc
    /\ UNCHANGED <<todo, done, mol, opts, atomFg, bondFg, atomRing, tagged_rings,
                   frags, comb_list, smiles, fragments, args, stack, ret>>

\* a loop that builds a fragment on every bond
EveryBond(m, b) == b \in Bonds(m)

\* the bonds for which line 305 holds
BuildsFragment(m, b) == IsRotor(m, b)

\* lines 304-308: one bond of the loop over charged.GetBonds()
GrowBond ==
    /\ pc = "grow"
    /\ cursor <= NBonds(mol)
    /\ IF ~BuildsFragment(mol, cursor)
       THEN /\ cursor' = cursor + 1
            /\ UNCHANGED <<pc, frags, exc>>
       ELSE \E f \in {BuildFrag(Ctx(mol, tagged_rings, tagged_fgroups, atomFg, atomRing),
                                cursor)} :
               IF f.err
               THEN /\ pc' = "raised"
                    /\ exc' = "ValueError"
                    /\ UNCHANGED <<cursor, frags>>
               ELSE /\ frags' = [b \in DOMAIN frags \cup {cursor} |->
                                   IF b = cursor THEN Fragment(f.atoms, f.bonds, <<>>)
                                   ELSE frags[b]]
                    /\ cursor' = cursor + 1
                    /\ UNCHANGED <<pc, exc>>
    /\ UNCHANGED <<todo, done, mol, opts, atomFg, bondFg, atomRing, tagged_rings,
                   tagged_fgroups, comb_list, smiles, fragments, args, stack, ret>>

\* a return from the loop over the bonds at any bond
ReturnAtAnyBond ==
    /\ pc = "grow"
    /\ pc' = "grown"
    /\ UNCHANGED <<todo, done, mol, opts, atomFg, bondFg, atomRing, tagged_rings,
                   tagged_fgroups, cursor, frags, comb_list, smiles, fragments, exc, args, stack, ret>>

\* lines 310 and 247-252: _generate_fragments returns charged, frags
GrowReturn ==
    /\ pc = "grow"
    /\ cursor > NBonds(mol)
    /\ pc' = "grown"
    /\ UNCHANGED <<todo, done, mol, opts, atomFg, bondFg, atomRing, tagged_rings,
                   tagged_fgroups, cursor, frags, comb_list, smiles, fragments, exc, args, stack, ret>>

\* lines 253-254 and 855
Combine ==
    /\ pc = "grown"
    /\ opts.combinatorial
    /\ comb_list' = GetFragmentAtomBondSetCombinations(mol, FragList(frags),
                        opts.MAX_ROTORS, DefaultMinRotors)
    /\ pc' = "combined"
    /\ UNCHANGED <<todo, done, mol, opts, atomFg, bondFg, atomRing, tagged_rings,
                   tagged_fgroups, cursor, frags, smiles, fragments, exc, args, stack, ret>>

\* lines 857-861
SmilesWithCombined(m, comb, frag_list) ==
    FragToSmiles(m, CombinedList(comb, frag_list), 1, <<>>)

EncodeCombined ==
    /\ pc = "combined"
    /\ smiles' = SmilesWithCombined(mol, comb_list, FragList(frags))
    /\ pc' = "encoded"
    /\ UNCHANGED <<todo, done, mol, opts, atomFg, bondFg, atomRing, tagged_rings,
                   tagged_fgroups, cursor, frags, comb_list, fragments, exc, args, stack, ret>>

\* lines 255-256: frag_to_smiles(frag_list, charged) lacks the required
\* argument OESMILESFlag of line 778, so the call raises TypeError
EncodePlain ==
    /\ pc = "grown"
    /\ ~opts.combinatorial
    /\ pc' = "raised"
    /\ exc' = "TypeError"
    /\ UNCHANGED <<todo, done, mol, opts, atomFg, bondFg, atomRing, tagged_rings,
                   tagged_fgroups, cursor, frags, comb_list, smiles, fragments, args, stack, ret>>

\* OEMolToSmiles(mol), line 258
ParentSmiles(m) == Encode(m, [atoms |-> Atoms(m), bonds |-> Bonds(m)])

\* lines 258-264
Record ==
    /\ pc = "encoded"
    /\ fragments' = [k \in DOMAIN fragments \cup {ParentSmiles(mol)} |->
                        IF k = ParentSmiles(mol) THEN Keys(smiles) ELSE fragments[k]]
    /\ pc' = "read"
    /\ UNCHANGED <<todo, done, mol, opts, atomFg, bondFg, atomRing, tagged_rings,
                   tagged_fgroups, cursor, frags, comb_list, smiles, exc, args, stack, ret>>

-----------------------------------------------------------------------------
(* Specifications. *)

\* the input streams of Spec: one molecule with some bonds off the default
\* bond order or with functional groups, or a molecule (with or without bond
\* orders) followed by butane.  Several functional groups at once are tried
\* on the chains, and two conjugated bonds at once on the two arms.
Chains == {Butane, Hexane}

Streams ==
    {<<m>> : m \in UNION {Conjugated(sk, MaxConj) : sk \in Skeletons}}
    \cup {<<m>> : m \in UNION {Grouped(sk, 1) : sk \in Skeletons}}
    \cup {<<m>> : m \in UNION {Grouped(sk, MaxGroups) : sk \in Chains}}
    \cup {<<m>> : m \in UNION {Unparsed(sk) : sk \in Chains}}
    \cup {<<m>> : m \in ConjugatedArms}
    \cup {<<m, Butane>> : m \in Skeletons \cup UNION {Uncharged(sk) : sk \in Skeletons}}

Init == \E stream \in Streams : \E o \in Options : Start(stream, o)

Generate ==
    \/ CheckWbo
    \/ TagFgroups
    \/ TagRings
    \/ ReconcileTags
    \/ GrowBond
    \/ GrowReturn

Next ==
    \/ ReadMolecule
    \/ Return
    \/ SkipMolecule
    \/ Generate
    \/ Combine
    \/ EncodeCombined
    \/ EncodePlain
    \/ Record

\* generate_fragments over a stream of molecules
Spec == Init /\ [][Next]_vars

-----------------------------------------------------------------------------
(* The assembler called directly: GetFragmentAtomBondSetCombinations and   *)
(* smiles_with_combined on a list of atom-bond sets of a molecule.         *)

\* the atom-bond set of one bond: the bond and its two atoms
BondFragments(m) ==
    {Fragment({GetBgn(m, b), GetEnd(m, b)}, {b}, <<>>) : b \in Bonds(m)}

\* the atom-bond set of two rotatable bonds that share an atom
RotorPairFragments(m) ==
    {Fragment({GetBgn(m, b), GetEnd(m, b), GetBgn(m, c), GetEnd(m, c)}, {b, c}, <<>>) :
        <<b, c>> \in {p \in m.rot \X m.rot :
                        /\ p[1] < p[2]
                        /\ {GetBgn(m, p[1]), GetEnd(m, p[1])}
                               \cap {GetBgn(m, p[2]), GetEnd(m, p[2])} # {}}}

AtomBondSets(m) == BondFragments(m) \cup RotorPairFragments(m)

\* the lists of at most n distinct atom-bond sets of the molecule
FragLists(m, n) ==
    UNION {{fl \in [1..k -> AtomBondSets(m)] :
               \A i, j \in 1..k : i # j => fl[i] # fl[j]} : k \in 0..n}

InitAsm ==
    \E m \in {Hexane, Branched} : \E fl \in FragLists(m, MaxFrags) :
        \E hi \in 0..MaxBudget : \E lo \in 0..MaxBudget :
            /\ todo = <<>>
            /\ done = 0
            /\ mol = m
            /\ opts = [combinatorial |-> TRUE, MAX_ROTORS |-> hi]
            /\ pc = "call"
            /\ atomFg = <<>> /\ bondFg = <<>> /\ atomRing = <<>>
            /\ tagged_rings = <<>>
            /\ tagged_fgroups = <<>>
            /\ cursor = 0
            /\ frags = <<>>
            /\ comb_list = <<>>
            /\ smiles = <<>>
            /\ fragments = <<>>
            /\ exc = "none"
            /\ args = [fraglist |-> fl, MAX_ROTORS |-> hi, MIN_ROTORS |-> lo]
            /\ stack = <<>>
            /\ ret = <<>>

\* GetFragmentAtomBondSetCombinations(fraglist, MAX_ROTORS, MIN_ROTORS)
CallCombinations ==
    /\ pc = "call"
    /\ comb_list' = GetFragmentAtomBondSetCombinations(mol, args.fraglist,
                        args.MAX_ROTORS, args.MIN_ROTORS)
    /\ pc' = "combinations"
    /\ UNCHANGED <<todo, done, mol, opts, atomFg, bondFg, atomRing, tagged_rings,
                   tagged_fgroups, cursor, frags, smiles, fragments, exc, args, stack, ret>>

\* smiles_with_combined(frag_list, mol, MAX_ROTORS): line 855 passes no
\* MIN_ROTORS, so the assembler runs with its default
CallSmilesWithCombined ==
    /\ pc = "call"
    /\ args.MIN_ROTORS = DefaultMinRotors
    /\ \E comb \in {GetFragmentAtomBondSetCombinations(mol, args.fraglist,
                        args.MAX_ROTORS, DefaultMinRotors)} :
           /\ comb_list' = comb
           /\ smiles' = SmilesWithCombined(mol, comb, args.fraglist)
    /\ pc' = "smiles"
    /\ UNCHANGED <<todo, done, mol, opts, atomFg, bondFg, atomRing, tagged_rings,
                   tagged_fgroups, cursor, frags, fragments, exc, args, stack, ret>>

NextAsm ==
    \/ CallCombinations
    \/ CallSmilesWithCombined

\* the assembler on every bounded list of atom-bond sets
SpecAsm == InitAsm /\ [][NextAsm]_vars

-----------------------------------------------------------------------------
(* tag_molecule called directly, and called again on the molecule it has   *)
(* tagged.                                                                 *)

\* SetData on the elements a run matches: the other elements keep the tag
\* they carry
WriteTag(old, new) == IF new = NoTag THEN old ELSE new
WriteRing(old, new) == IF new = 0 THEN old ELSE new

\* a tag_molecule that leaves a molecule alone once it carries a tag
TagUntagged(m, aFg, bFg, aRing) ==
    [rings |-> IF \E a \in Atoms(m) : aRing[a] # 0 THEN <<>> ELSE TagRingsOf(m).dict,
     fgroups |-> IF \E a \in Atoms(m) : aFg[a] # NoTag THEN <<>>
                 ELSE RingFgroupUnion(m, TagRingsOf(m).dict, TagFgroupsOf(m).dict).d,
     err |-> RingFgroupUnion(m, TagRingsOf(m).dict, TagFgroupsOf(m).dict).err,
     atomFg |-> [a \in Atoms(m) |-> WriteTag(aFg[a], TagFgroupsOf(m).atomFg[a])],
     bondFg |-> [b \in Bonds(m) |-> WriteTag(bFg[b], TagFgroupsOf(m).bondFg[b])],
     atomRing |-> [a \in Atoms(m) |-> WriteRing(aRing[a], TagRingsOf(m).atomRing[a])]]

\* tag_molecule(mol, func_group_smarts) on a molecule whose atoms and bonds
\* carry the tags aFg, bFg, aRing: the two maps it returns (or err, when
\* _ring_fgroup_union raised ValueError) and the tags it leaves
TagMolecule(m, aFg, bFg, aRing) ==
    [rings |-> TagRingsOf(m).dict,
     fgroups |-> RingFgroupUnion(m, TagRingsOf(m).dict, TagFgroupsOf(m).dict).d,
     err |-> RingFgroupUnion(m, TagRingsOf(m).dict, TagFgroupsOf(m).dict).err,
     atomFg |-> [a \in Atoms(m) |-> WriteTag(aFg[a], TagFgroupsOf(m).atomFg[a])],
     bondFg |-> [b \in Bonds(m) |-> WriteTag(bFg[b], TagFgroupsOf(m).bondFg[b])],
     atomRing |-> [a \in Atoms(m) |-> WriteRing(aRing[a], TagRingsOf(m).atomRing[a])]]

\* a skeleton with one functional group and at most k bonds off the default
\* bond order
GroupedConjugated(sk, k) ==
    {[m EXCEPT !.lib = l] : m \in Conjugated(sk, k), l \in Libraries(sk, 1)}

\* a skeleton with one functional group and one bond without a bond order
GroupedUncharged(sk) ==
    {[m EXCEPT !.has[k] = FALSE] : m \in Grouped(sk, 1), k \in Bonds(sk)}

\* the molecules tag_molecule is run on
TagInputs ==
    UNION {GroupedConjugated(sk, MaxConj) \cup GroupedUncharged(sk) : sk \in Skeletons}
    \cup UNION {Grouped(sk, MaxTagGroups) \cup Unparsed(sk) : sk \in Chains}
    \cup Skeletons

InitTag ==
    \E m \in TagInputs :
        /\ todo = <<>>
        /\ done = 0
        /\ mol = m
        /\ opts = [combinatorial |-> TRUE, MAX_ROTORS |-> DefaultMaxRotors]
        /\ pc = "tag"
        /\ atomFg = [a \in Atoms(m) |-> NoTag]
        /\ bondFg = [b \in Bonds(m) |-> NoTag]
        /\ atomRing = [a \in Atoms(m) |-> 0]
        /\ tagged_rings = <<>>
        /\ tagged_fgroups = <<>>
        /\ cursor = 0
        /\ frags = <<>>
        /\ comb_list = <<>>
        /\ smiles = <<>>
        /\ fragments = <<>>
        /\ exc = "none"
        /\ args = NoArgs
        /\ stack = <<>>
        /\ ret = <<>>

\* tagged_rings, tagged_fgroups = tag_molecule(mol, lib), for the first time
\* (pc = "tag") or again on the tagged molecule (pc = "tagged")
CallTagMolecule ==
    /\ pc \in {"tag", "tagged"}
    /\ \E t \in {TagMolecule(mol, atomFg, bondFg, atomRing)} :
           /\ atomFg' = t.atomFg
           /\ bondFg' = t.bondFg
           /\ atomRing' = t.atomRing
           /\ IF t.err
              THEN /\ pc' = "raised"
                   /\ exc' = "ValueError"
                   /\ UNCHANGED <<tagged_rings, tagged_fgroups>>
              ELSE /\ pc' = IF pc = "tag" THEN "tagged" ELSE "retagged"
                   /\ tagged_rings' = t.rings
                   /\ tagged_fgroups' = t.fgroups
                   /\ exc' = exc
    /\ UNCHANGED <<todo, done, mol, opts, cursor, frags, comb_list, smiles,
                   fragments, args, stack, ret>>

NextTag == CallTagMolecule

\* tag_molecule on every bounded molecule, twice
SpecTag == InitTag /\ [][NextTag]_vars

-----------------------------------------------------------------------------
(* _build_frag step by step: the two calls of iterate_nbratoms with the    *)
(* frames of the recursion of _iterate_nbratoms on a stack.  A frame holds *)
(* the arguments rotor_bond, atom and pair, the position k in the loop     *)
(* over atom's neighbours, the neighbour a whose own neighbours are being  *)
(* looked at (0 outside that loop) with the position j in it, and the sets *)
(* st as in Frame.                                                         *)

\* a recursive call that starts from empty sets
CallWithEmptySets(st, nb_a, nn_bond) == Frame({}, {}, st.i + 1)

\* lines 708-711: the sets the recursive call receives are the caller's, with
\* nb_a and nn_bond added, and the counter is the caller's incremented one
CallWithCallersSets(st, nb_a, nn_bond) ==
    Frame(st.A \cup {nb_a}, st.B \cup {nn_bond}, st.i + 1)

Activation(rotor_bond, atom, pair, st) ==
    [rotor_bond |-> rotor_bond, atom |-> atom, pair |-> pair, k |-> 1, a |-> 0, j |-> 0,
     st |-> st]

Top == stack[Len(stack)]
Replace(f) == [stack EXCEPT ![Len(stack)] = f]
TaggedCtx == Ctx(mol, tagged_rings, tagged_fgroups, atomFg, atomRing)

\* the molecules _build_frag is run on: those of the pipeline that
\* tag_molecule accepts, and the chains with more bonds off the default order
GrowInputs ==
    {m \in UNION {Conjugated(sk, MaxConj) \cup Grouped(sk, 1) : sk \in Skeletons}
           \cup UNION {Conjugated(sk, MaxGrowConj) : sk \in Chains}
           \cup ConjugatedArms :
        ~RingFgroupUnion(m, TagRingsOf(m).dict, TagFgroupsOf(m).dict).err}

\* lines 300-305: molecule m is tagged and the loop has reached the
\* rotatable bond b
GrowFrom(m, b) ==
    /\ todo = <<>>
    /\ done = 0
    /\ mol = m
    /\ opts = [combinatorial |-> TRUE, MAX_ROTORS |-> DefaultMaxRotors]
    /\ pc = "iterate"
    /\ atomFg = TagFgroupsOf(m).atomFg
    /\ bondFg = TagFgroupsOf(m).bondFg
    /\ atomRing = TagRingsOf(m).atomRing
    /\ tagged_rings = TagRingsOf(m).dict
    /\ tagged_fgroups =
           RingFgroupUnion(m, TagRingsOf(m).dict, TagFgroupsOf(m).dict).d
    /\ cursor = b
    /\ frags = <<>>
    /\ comb_list = <<>>
    /\ smiles = <<>>
    /\ fragments = <<>>
    /\ exc = "none"
    /\ args = NoArgs
    /\ stack = <<>>
    /\ ret = <<>>

InitGrow == \E m \in GrowInputs : \E b \in m.rot : GrowFrom(m, b)

\* the molecules _build_frag is run on to absorb a ring system with
\* substituents: the substituted ring with a bond off the default order, with
\* a functional group, or with two groups across the ring's bonds, and the
\* ring that carries a chain
RingInputs ==
    {m \in Conjugated(SubstitutedRing, MaxConj) \cup Grouped(SubstitutedRing, 1)
           \cup SpanningGroups \cup Conjugated(Ring4Chain, MaxConj) :
        ~RingFgroupUnion(m, TagRingsOf(m).dict, TagFgroupsOf(m).dict).err}

InitRing == \E m \in RingInputs : \E b \in m.rot : GrowFrom(m, b)

\* lines 600 and 602, 713: iterate_nbratoms is called for the begin atom,
\* then for the end atom
CallIterateNbrAtoms ==
    /\ pc = "iterate"
    /\ stack = <<>>
    /\ Len(ret) < 2
    /\ stack' = IF ret = <<>>
                THEN <<Activation(cursor, GetBgn(mol, cursor), GetEnd(mol, cursor),
                                  Frame({}, {}, 0))>>
                ELSE <<Activation(cursor, GetEnd(mol, cursor), GetBgn(mol, cursor),
                                  Frame({}, {}, 0))>>
    /\ UNCHANGED <<todo, done, mol, opts, pc, atomFg, bondFg, atomRing, tagged_rings,
                   tagged_fgroups, cursor, frags, comb_list, smiles, fragments, exc,
                   args, ret>>

\* lines 644-697: the next neighbour of the frame's atom
VisitNeighbour ==
    /\ pc = "iterate"
    /\ stack # <<>>
    /\ Top.a = 0
    /\ Top.k <= Len(GetAtoms(mol, Top.atom))
    /\ \E a \in {GetAtoms(mol, Top.atom)[Top.k]} :
           IF a = Top.pair
           THEN /\ stack' = Replace([Top EXCEPT !.k = @ + 1])
                /\ UNCHANGED <<pc, exc>>
           ELSE \E v \in {VisitNbr(TaggedCtx, Top.rotor_bond, Top.atom, a, Top.st)} :
                    IF v.st.err
                    THEN /\ stack' = <<>>
                         /\ pc' = "raised"
                         /\ exc' = "ValueError"
                    ELSE /\ stack' = Replace(IF v.go
                                             THEN [Top EXCEPT !.a = a, !.j = 1, !.st = v.st]
                                             ELSE [Top EXCEPT !.k = @ + 1, !.st = v.st])
                         /\ UNCHANGED <<pc, exc>>
    /\ UNCHANGED <<todo, done, mol, opts, atomFg, bondFg, atomRing, tagged_rings,
                   tagged_fgroups, cursor, frags, comb_list, smiles, fragments,
                   args, ret>>

\* lines 699-711: the next neighbour nb_a of a; the bond is skipped, or
\* followed by a recursive call
ExtendNeighbour ==
    /\ pc = "iterate"
    /\ stack # <<>>
    /\ Top.a # 0
    /\ Top.j <= Len(GetAtoms(mol, Top.a))
    /\ Len(stack) <= NBonds(mol) + 1
    /\ \E nb_a \in {GetAtoms(mol, Top.a)[Top.j]} :
       \E nn_bond \in {GetBond(mol, Top.a, GetAtoms(mol, Top.a)[Top.j])} :
           IF ~HasWbo(mol, nn_bond)
           THEN /\ stack' = <<>>
                /\ pc' = "raised"
                /\ exc' = "ValueError"
           ELSE /\ stack' =
                      IF Follows(mol, Top.a, nb_a, nn_bond, Top.st)
                      THEN Append(stack,
                                  Activation(nn_bond, nb_a, Top.pair,
                                             CallWithCallersSets(Top.st, nb_a, nn_bond)))
                      ELSE Replace([Top EXCEPT !.j = @ + 1])
                /\ UNCHANGED <<pc, exc>>
    /\ UNCHANGED <<todo, done, mol, opts, atomFg, bondFg, atomRing, tagged_rings,
                   tagged_fgroups, cursor, frags, comb_list, smiles, fragments,
                   args, ret>>

\* line 699 exhausted: back to the loop of line 644
ExtendDone ==
    /\ pc = "iterate"
    /\ stack # <<>>
    /\ Top.a # 0
    /\ Top.j > Len(GetAtoms(mol, Top.a))
    /\ stack' = Replace([Top EXCEPT !.a = 0, !.j = 0, !.k = @ + 1])
    /\ UNCHANGED <<todo, done, mol, opts, pc, atomFg, bondFg, atomRing, tagged_rings,
                   tagged_fgroups, cursor, frags, comb_list, smiles, fragments, exc,
                   args, ret>>

\* line 712 in a recursive call: the caller drops the value (line 711) and
\* goes on with the sets it passed
ReturnToCaller ==
    /\ pc = "iterate"
    /\ Len(stack) > 1
    /\ Top.a = 0
    /\ Top.k > Len(GetAtoms(mol, Top.atom))
    /\ stack' = [SubSeq(stack, 1, Len(stack) - 1) EXCEPT ![Len(stack) - 1] =
                    [@ EXCEPT !.st = AfterCall(@, Top.atom, Top.rotor_bond, Top.st),
                              !.j = @ + 1]]
    /\ UNCHANGED <<todo, done, mol, opts, pc, atomFg, bondFg, atomRing, tagged_rings,
                   tagged_fgroups, cursor, frags, comb_list, smiles, fragments, exc,
                   args, ret>>

\* lines 712-713 in the outermost call: iterate_nbratoms returns its sets
ReturnSets ==
    /\ pc = "iterate"
    /\ Len(stack) = 1
    /\ Top.a = 0
    /\ Top.k > Len(GetAtoms(mol, Top.atom))
    /\ ret' = Append(ret, Top.st)
    /\ stack' = <<>>
    /\ UNCHANGED <<todo, done, mol, opts, pc, atomFg, bondFg, atomRing, tagged_rings,
                   tagged_fgroups, cursor, frags, comb_list, smiles, fragments, exc,
                   args>>

\* lines 604-615: _build_frag joins the two results and returns
ReturnFragment ==
    /\ pc = "iterate"
    /\ Len(ret) = 2
    /\ \E f \in {JoinTraversals(cursor, GetBgn(mol, cursor), GetEnd(mol, cursor),
                                Returned(ret[1]), Returned(ret[2]))} :
           frags' = [b \in {cursor} |-> Fragment(f.atoms, f.bonds, <<>>)]
    /\ pc' = "built"
    /\ UNCHANGED <<todo, done, mol, opts, atomFg, bondFg, atomRing, tagged_rings,
                   tagged_fgroups, cursor, comb_list, smiles, fragments, exc,
                   args, stack, ret>>

NextGrow ==
    \/ CallIterateNbrAtoms
    \/ VisitNeighbour
    \/ ExtendNeighbour
    \/ ExtendDone
    \/ ReturnToCaller
    \/ ReturnSets
    \/ ReturnFragment

\* _build_frag on every rotatable bond of every bounded molecule; the
\* interpreter runs the one thread of the program until it returns or raises
SpecGrow == InitGrow /\ [][NextGrow]_vars /\ WF_vars(NextGrow)

\* _build_frag on the substituted ring
SpecRing == InitRing /\ [][NextGrow]_vars

-----------------------------------------------------------------------------
(* What the properties below are stated with: ring systems, connectivity   *)
(* and rotor counts read off the molecule itself.                          *)

\* the atoms of ring system r
RingAtoms(m, r) == {a \in 1..m.n : m.parts[a] = r}
RingSystems(m) == {m.parts[a] : a \in 1..m.n} \ {0}

\* a set of atoms lies wholly inside a fragment or wholly outside it
WholeOrAbsent(S, atoms) == S \subseteq atoms \/ S \cap atoms = {}

\* some bond of the molecule joins an atom of X to an atom of Y
Touching(m, X, Y) ==
    \E e \in 1..Len(m.edges) :
        \/ m.edges[e][1] \in X /\ m.edges[e][2] \in Y
        \/ m.edges[e][2] \in X /\ m.edges[e][1] \in Y

\* the positions of fl reachable from the positions R through touching members
RECURSIVE ReachedFrom(_, _, _)
ReachedFrom(m, fl, R) ==
    LET more == {k \in 1..Len(fl) : \E j \in R : Touching(m, fl[j].atoms, fl[k].atoms)}
    IN  IF more \subseteq R THEN R ELSE ReachedFrom(m, fl, R \cup more)

\* every member of fl is reachable from the first
OneComponent(m, fl) == fl # <<>> /\ ReachedFrom(m, fl, {1}) = 1..Len(fl)

\* the non-empty sets of positions 1..n, each as an increasing sequence
Subsets(n) == {SortedSeq(S) : S \in (SUBSET (1..n)) \ {{}}}

UnionAtoms(fl) == UNION {fl[k].atoms : k \in 1..Len(fl)}
UnionBonds(fl) == UNION {fl[k].bonds : k \in 1..Len(fl)}

\* the bonds of the molecule between two atoms of S
BondsWithin(m, S) ==
    {e \in 1..Len(m.edges) : m.edges[e][1] \in S /\ m.edges[e][2] \in S}

\* the rotatable bonds among the members' bonds and the bonds between atoms
\* of their union
ClosedRotors(m, fl) ==
    Cardinality(m.rot \cap (UnionBonds(fl) \cup BondsWithin(m, UnionAtoms(fl))))

\* the rotatable bonds among the members' own bonds
OpenRotors(m, fl) == Cardinality(m.rot \cap UnionBonds(fl))

\* the fragments listed under the keys of a dictionary of encodings
RECURSIVE Listed(_)
Listed(d) ==
    IF d = <<>> THEN {}
    ELSE {Head(d).list[k] : k \in 1..Len(Head(d).list)} \cup Listed(Tail(d))

RECURSIVE ListedCount(_)
ListedCount(d) == IF d = <<>> THEN 0 ELSE Len(Head(d).list) + ListedCount(Tail(d))

-----------------------------------------------------------------------------
(* Properties. *)

\* C1: every fragment _build_frag returns holds each ring system of the
\* molecule whole or not at all, at whatever depth a ring atom is reached.
RingsWholeOrAbsent ==
    \A b \in DOMAIN frags : \A r \in RingSystems(mol) :
        WholeOrAbsent(RingAtoms(mol, r), frags[b].atoms)

\* C2: GetFragmentAtomBondSetCombinations returns every subset of the list,
\* of every size from 1 to the whole list, whose members are connected and
\* whose closed union has a rotor count within [MIN_ROTORS, MAX_ROTORS].
EnumeratesEverySubset ==
    pc = "combinations" =>
        \A t \in Subsets(Len(args.fraglist)) :
            ( /\ OneComponent(mol, Pick(args.fraglist, t))
              /\ ClosedRotors(mol, Pick(args.fraglist, t)) >= args.MIN_ROTORS
              /\ ClosedRotors(mol, Pick(args.fraglist, t)) <= args.MAX_ROTORS )
            => \E j \in 1..Len(comb_list) : comb_list[j].of = t

CombinationsAreConnected ==
    pc = "combinations" =>
        /\ \A j \in 1..Len(comb_list) :
               OneComponent(mol, Pick(args.fraglist, comb_list[j].of))
        /\ \A t \in Subsets(Len(args.fraglist)) :
               IsAdjacentAtomBondSetCombination(mol, Pick(args.fraglist, t))
                   <=> OneComponent(mol, Pick(args.fraglist, t))

\* a list with a returned combination of two members, a subset that is not
\* connected, and three members connected only through the third
ConnectedThroughThird ==
    /\ pc = "combinations"
    /\ Len(args.fraglist) = 3
    /\ \E j \in 1..Len(comb_list) : Len(comb_list[j].of) = 2
    /\ ~OneComponent(mol, Pick(args.fraglist, <<1, 2>>))
    /\ OneComponent(mol, args.fraglist)

GroupsWholeOrAbsent ==
    \A b \in DOMAIN frags : \A k \in 1..Len(tagged_fgroups) :
        WholeOrAbsent(tagged_fgroups[k].atoms, frags[b].atoms)

\* C7: when any bond of the molecule carries no bond order, no fragment is
\* built, nothing is recorded for the molecule, no exception leaves
\* generate_fragments and the run goes on with the next molecule.
MissingBondOrderSkips ==
    (mol.n > 0 /\ \E b \in 1..Len(mol.edges) : ~mol.has[b]) =>
        /\ pc \in {"check", "skip", "read", "returned"}
        /\ frags = <<>>
        /\ exc = "none"
        /\ ParentSmiles(mol) \notin DOMAIN fragments

\* C8: the fragment map _generate_fragments returns has an entry for each
\* rotatable bond of the molecule, under the bond's index, and no other entry.
OneFragmentPerRotor ==
    pc = "grown" => DOMAIN frags = {e \in 1..Len(mol.edges) : e \in mol.rot}

\* growth has returned for a molecule with several rotatable bonds and a bond
\* that is not rotatable
GrownWithOtherBonds ==
    /\ pc = "grown"
    /\ Cardinality(DOMAIN frags) >= 2
    /\ \E e \in 1..Len(mol.edges) : e \notin mol.rot

\* C9: the fragment of a rotatable bond holds the two atoms of the bond and
\* the bond itself.
FragmentHoldsItsBond ==
    \A b \in DOMAIN frags :
        /\ mol.edges[b][1] \in frags[b].atoms
        /\ mol.edges[b][2] \in frags[b].atoms
        /\ b \in frags[b].bonds

\* a fragment was built on a bond one of whose atoms has no other neighbour,
\* so the traversal from that atom finds nothing
TerminalEndpoint ==
    \E b \in DOMAIN frags :
        Cardinality({e \in 1..Len(mol.edges) : mol.edges[b][1] \in
                        {mol.edges[e][1], mol.edges[e][2]}}) = 1

\* C10: the dictionary smiles_with_combined returns lists every fragment of
\* the list it was given, whatever the fragment's own rotor count, and every
\* combination the assembler returned.
BaseFragmentsListed ==
    pc = "smiles" =>
        /\ \A k \in 1..Len(args.fraglist) : args.fraglist[k] \in Listed(smiles)
        /\ \A j \in 1..Len(comb_list) : comb_list[j] \in Listed(smiles)

\* a list with a fragment below MIN_ROTORS and a fragment above MAX_ROTORS,
\* encoded together with a returned combination
OutOfBudgetListed ==
    /\ pc = "smiles"
    /\ comb_list # <<>>
    /\ \E k \in 1..Len(args.fraglist) :
           Cardinality(mol.rot \cap args.fraglist[k].bonds) < DefaultMinRotors
    /\ \E k \in 1..Len(args.fraglist) :
           Cardinality(mol.rot \cap args.fraglist[k].bonds) > args.MAX_ROTORS

\* C11: a pattern that fails to parse adds no group to the functional-group
\* map and writes no tag on any atom or bond, and every pattern that parses
\* has its matches recorded.
UnparsedPatternSkipped ==
    pc = "tag_rings" =>
        \A p \in 1..Len(mol.lib) :
            IF ~mol.lib[p].ok
            THEN /\ \A k \in 1..Len(tagged_fgroups) : tagged_fgroups[k].name[1] # p
                 /\ \A a \in 1..mol.n : atomFg[a] = NoTag \/ atomFg[a][1] # p
                 /\ \A b \in 1..Len(mol.edges) : bondFg[b] = NoTag \/ bondFg[b][1] # p
            ELSE \A i \in 1..Len(mol.lib[p].matches) :
                     \E k \in 1..Len(tagged_fgroups) :
                         /\ tagged_fgroups[k].name = <<p, i - 1>>
                         /\ tagged_fgroups[k].atoms = mol.lib[p].matches[i].atoms
                         /\ tagged_fgroups[k].bonds = mol.lib[p].matches[i].bonds

\* C12: a molecule with a bond order on every bond and no rotatable bond
\* yields an empty fragment map, is not skipped, raises nothing and is
\* recorded with an empty list of fragments.
RotorlessRecordedEmpty ==
    (mol.n > 0 /\ mol.rot = {} /\ \A b \in 1..Len(mol.edges) : mol.has[b]) =>
        /\ pc \notin {"skip", "raised"}
        /\ pc \in {"grown", "combined", "encoded"} => frags = <<>>
        /\ pc = "read" =>
               /\ ParentSmiles(mol) \in DOMAIN fragments
               /\ fragments[ParentSmiles(mol)] = <<>>

\* C13: with combinatorial assembly disabled no error is raised by the call
\* of frag_to_smiles, and what is encoded for the molecule is exactly the
\* distinct encodings of its base fragments.
PlainPathRecords ==
    ~opts.combinatorial =>
        /\ exc # "TypeError"
        /\ pc = "encoded" =>
               /\ {smiles[j].key : j \in 1..Len(smiles)}
                      = {Encode(mol, frags[b]) : b \in DOMAIN frags}
               /\ \A i, j \in 1..Len(smiles) : smiles[i].key = smiles[j].key => i = j

RECURSIVE EncodedAs(_, _, _)
EncodedAs(m, fl, s) ==
    IF fl = <<>> THEN <<>>
    ELSE IF Encode(m, Head(fl)) = s
         THEN <<Head(fl)>> \o EncodedAs(m, Tail(fl), s)
         ELSE EncodedAs(m, Tail(fl), s)

\* C15: the mapping frag_to_smiles returns has one key for every encoding
\* met in its input and no key twice; the list under a key holds exactly the
\* input fragments with that encoding, each as often as it is in the input
\* and in input order (so equal atom and bond sets share a key).
GroupedByEncoding ==
    pc = "smiles" =>
        /\ \A i, j \in 1..Len(smiles) : smiles[i].key = smiles[j].key => i = j
        /\ \A k \in 1..Len(CombinedList(comb_list, args.fraglist)) :
               \E j \in 1..Len(smiles) :
                   smiles[j].key = Encode(mol, CombinedList(comb_list, args.fraglist)[k])
        /\ \A j \in 1..Len(smiles) :
               /\ smiles[j].list # <<>>
               /\ smiles[j].list =
                      EncodedAs(mol, CombinedList(comb_list, args.fraglist), smiles[j].key)

\* a mapping with two keys and a list of two different fragments
TwoUnderOneKey ==
    /\ pc = "smiles"
    /\ Len(smiles) >= 2
    /\ \E j \in 1..Len(smiles) :
           Len(smiles[j].list) >= 2 /\ smiles[j].list[1] # smiles[j].list[2]

\* the tags and maps of the current molecule
Tags == <<atomFg, bondFg, atomRing, tagged_rings, tagged_fgroups>>

\* tag_molecule has finished on the current molecule
TaggingFinished ==
    /\ tagged_rings = TagRingsOf(mol).dict
    /\ tagged_fgroups =
           RingFgroupUnion(mol, TagRingsOf(mol).dict, TagFgroupsOf(mol).dict).d
    /\ atomFg = TagFgroupsOf(mol).atomFg
    /\ atomRing = TagRingsOf(mol).atomRing

\* the current molecule was skipped or recorded
FullyProcessed ==
    \/ mol = NoMol
    \/ WboMissing(mol)
    \/ /\ ParentSmiles(mol) \in DOMAIN fragments
       /\ fragments[ParentSmiles(mol)] = Keys(smiles)

\* C16: the stages of a molecule do not overlap.  A step that tags happens
\* before the loop over the bonds has started; a step that grows a fragment
\* finds tagging finished and leaves the tags alone; the step that assembles
\* finds a fragment for every rotatable bond and changes none; the step that
\* deduplicates finds the assembled list and changes neither it nor the
\* fragments; the step that reads a molecule finds the one before it
\* skipped or recorded.
StagesInOrder ==
    [][/\ (done' = done /\ Tags' # Tags) =>
              cursor = 0 /\ frags = <<>> /\ frags' = <<>> /\ comb_list' = <<>>
       /\ (done' = done /\ frags' # frags) =>
              TaggingFinished /\ Tags' = Tags /\ comb_list' = <<>> /\ smiles' = <<>>
       /\ (done' = done /\ pc' = "combined") =>
              /\ TaggingFinished /\ Tags' = Tags
              /\ DOMAIN frags = mol.rot /\ frags' = frags
              /\ smiles' = <<>>
       /\ (done' = done /\ pc' = "encoded") =>
              /\ comb_list = GetFragmentAtomBondSetCombinations(mol, FragList(frags),
                                 opts.MAX_ROTORS, DefaultMinRotors)
              /\ comb_list' = comb_list /\ frags' = frags /\ Tags' = Tags
       /\ done' # done => FullyProcessed]_vars

\* the second molecule of a stream recorded, with its fragment and its
\* encodings
SecondMoleculeRecorded ==
    /\ pc = "read"
    /\ done = 2
    /\ frags # <<>>
    /\ smiles # <<>>
    /\ ParentSmiles(mol) \in DOMAIN fragments

\* C17: on a molecule without rings (where the merge pass alone shapes the
\* map tag_molecule returns), every two functional groups whose matched atom
\* sets share more than one atom end with the same atom set and the same
\* bond set, holding the atoms and bonds of both.
MergedPairsIdentical ==
    (pc = "tagged" /\ tagged_rings = <<>>) =>
        \A i, j \in 1..Len(tagged_fgroups) :
            (i < j /\ Cardinality(FgItems(mol.lib, 1)[i].atoms
                                    \cap FgItems(mol.lib, 1)[j].atoms) > 1) =>
                /\ tagged_fgroups[i].atoms = tagged_fgroups[j].atoms
                /\ tagged_fgroups[i].bonds = tagged_fgroups[j].bonds
                /\ FgItems(mol.lib, 1)[i].atoms \cup FgItems(mol.lib, 1)[j].atoms
                       \subseteq tagged_fgroups[i].atoms
                /\ FgItems(mol.lib, 1)[i].bonds \cup FgItems(mol.lib, 1)[j].bonds
                       \subseteq tagged_fgroups[i].bonds

\* the bonds of m that join atom x to an atom of S
BondsInto(m, x, S) ==
    {b \in Bonds(m) : {GetBgn(m, b), GetEnd(m, b)} \cap {x} # {}
                        /\ ({GetBgn(m, b), GetEnd(m, b)} \ {x}) \cap S # {}}

\* the two triggers: the ring and the group share more than one atom, or
\* they share one atom and a bond from it to a member of the group is above
\* the threshold or not rotatable
Absorbs(m, ring, cur) ==
    \/ Cardinality(ring.atoms \cap cur.atoms) > 1
    \/ /\ Cardinality(ring.atoms \cap cur.atoms) = 1
       /\ \E x \in ring.atoms \cap cur.atoms : \E b \in BondsInto(m, x, cur.atoms) :
              Wbo(m, b) > WboThreshold \/ ~IsRotor(m, b)

\* a group after the rings idx.. have been looked at in turn, each absorbed
\* whole when a trigger holds and leaving the group as it is otherwise
RECURSIVE AbsorbRings(_, _, _, _)
AbsorbRings(m, rings, idx, cur) ==
    IF idx > Len(rings) THEN cur
    ELSE AbsorbRings(m, rings, idx + 1,
                     IF Absorbs(m, rings[idx], cur) THEN Union2(rings[idx], cur) ELSE cur)

\* the groups as the merge pass of lines 422-429 leaves them
MergedGroups(m) == MergeFgroups(FgItems(m.lib, 1), Pairs2(Len(FgItems(m.lib, 1))), 1)

\* C18: in the map tag_molecule returns every functional group holds, beyond
\* what the merge pass gave it, exactly the ring systems for which a trigger
\* held when the ring was looked at (more than one shared atom, or one shared
\* atom with a bond to a group member above the threshold or not rotatable),
\* each of them whole; and the ring map is the one _tag_rings built.
RingAbsorbedIffTriggered ==
    pc = "tagged" =>
        /\ tagged_rings = TagRingsOf(mol).dict
        /\ Len(tagged_fgroups) = Len(MergedGroups(mol))
        /\ \A g \in 1..Len(tagged_fgroups) :
               /\ tagged_fgroups[g].atoms =
                      AbsorbRings(mol, tagged_rings, 1, MergedGroups(mol)[g]).atoms
               /\ tagged_fgroups[g].bonds =
                      AbsorbRings(mol, tagged_rings, 1, MergedGroups(mol)[g]).bonds

\* a ring absorbed through a rotatable bond above the threshold, from a
\* group that shares one atom with it
AbsorbedThroughConjugation ==
    /\ pc = "tagged"
    /\ \E g \in 1..Len(tagged_fgroups) : \E r \in 1..Len(tagged_rings) :
           /\ Cardinality(MergedGroups(mol)[g].atoms \cap tagged_rings[r].atoms) = 1
           /\ tagged_rings[r].atoms \subseteq tagged_fgroups[g].atoms
           /\ \A x \in MergedGroups(mol)[g].atoms \cap tagged_rings[r].atoms :
                  \A b \in BondsInto(mol, x, MergedGroups(mol)[g].atoms) : IsRotor(mol, b)

\* C19: every base fragment holds each atom bonded to an endpoint of its
\* rotatable bond (the other endpoint apart) together with the bond that
\* joins the atom to the endpoint.
FirstHopUngated ==
    \A b \in DOMAIN frags :
        \A e \in {GetBgn(mol, b), GetEnd(mol, b)} :
            \A nb \in BondsOf(mol, e) \ {b} :
                /\ nb \in frags[b].bonds
                /\ {GetBgn(mol, nb), GetEnd(mol, nb)} \subseteq frags[b].atoms

\* the bonds i and j exchanged
Swap(m, i, j) == [k \in Bonds(m) |-> IF k = i THEN j ELSE IF k = j THEN i ELSE k]

\* the image of a set of bonds under p
Renamed(m, p, S) == {k \in Bonds(m) : p[k] \in S}

\* the molecule m with its bonds stored in another order (bond k is what
\* bond p[k] was), so that the toolkit yields the neighbours of an atom in
\* another order
Reordered(m, p) ==
    [n |-> m.n,
     edges |-> [k \in Bonds(m) |-> m.edges[p[k]]],
     parts |-> m.parts,
     rot |-> Renamed(m, p, m.rot),
     wbo |-> [k \in Bonds(m) |-> m.wbo[p[k]]],
     has |-> [k \in Bonds(m) |-> m.has[p[k]]],
     lib |-> [q \in DOMAIN m.lib |->
                [ok |-> m.lib[q].ok,
                 matches |-> [x \in DOMAIN m.lib[q].matches |->
                                [atoms |-> m.lib[q].matches[x].atoms,
                                 bonds |-> Renamed(m, p, m.lib[q].matches[x].bonds)]]]]]

\* lines 300-308 on molecule m for its bond b
BuildFragOf(m, b) ==
    BuildFrag(Ctx(m, TagRingsOf(m).dict,
                  RingFgroupUnion(m, TagRingsOf(m).dict, TagFgroupsOf(m).dict).d,
                  TagFgroupsOf(m).atomFg, TagRingsOf(m).atomRing), b)

\* C20: the base fragment of a rotatable bond is the same atom set and bond
\* set when two bonds of the molecule exchange their places in the order in
\* which the toolkit yields them.
SameForEveryNeighbourOrder ==
    \A b \in DOMAIN frags : \A i, j \in Bonds(mol) :
        /\ BuildFragOf(Reordered(mol, Swap(mol, i, j)), Swap(mol, i, j)[b]).atoms
               = frags[b].atoms
        /\ Renamed(mol, Swap(mol, i, j),
                   BuildFragOf(Reordered(mol, Swap(mol, i, j)), Swap(mol, i, j)[b]).bonds)
               = frags[b].bonds

\* the atoms reachable from the atoms R along the bonds B
RECURSIVE AtomsReached(_, _, _)
AtomsReached(m, B, R) ==
    LET more == UNION {{GetBgn(m, e), GetEnd(m, e)} :
                          e \in {x \in B : {GetBgn(m, x), GetEnd(m, x)} \cap R # {}}}
    IN  IF more \subseteq R THEN R ELSE AtomsReached(m, B, R \cup more)

\* C21: in every base fragment each bond of the bond set has both its atoms
\* in the atom set, and each atom of the atom set is reached from the
\* endpoints of the rotatable bond along bonds of the bond set.
FragmentConnectedByItsBonds ==
    \A b \in DOMAIN frags :
        /\ \A e \in frags[b].bonds : {GetBgn(mol, e), GetEnd(mol, e)} \subseteq frags[b].atoms
        /\ frags[b].atoms \subseteq
               AtomsReached(mol, frags[b].bonds, {GetBgn(mol, b), GetEnd(mol, b)})

\* a molecule without rings and without functional groups
Plain(m) == m.lib = <<>> /\ \A a \in Atoms(m) : ~AtomIsInRing(m, a)

\* the non-ring bonds between two non-terminal atoms with a bond order above
\* the threshold
Conjugating(m) ==
    {e \in Bonds(m) : /\ ~IsInRing(m, e)
                      /\ HasWbo(m, e) /\ Wbo(m, e) > WboThreshold
                      /\ GetDegree(m, GetBgn(m, e)) > 1
                      /\ GetDegree(m, GetEnd(m, e)) > 1}

\* the atoms bonded to an endpoint of bond b, the endpoints apart
FirstShell(m, b) ==
    UNION {{GetBgn(m, e), GetEnd(m, e)} : e \in Attached(m, b)}
        \ {GetBgn(m, b), GetEnd(m, b)}

\* the conjugating bonds that do not touch an endpoint of bond b
Outward(m, b) ==
    {e \in Conjugating(m) :
        {GetBgn(m, e), GetEnd(m, e)} \cap {GetBgn(m, b), GetEnd(m, b)} = {}}

\* C22: in a molecule without rings and functional groups a base fragment is
\* the rotatable bond with the first shell (the endpoints' neighbours and the
\* bonds to them) when no bond conjugates; when some bond does, the fragment
\* holds every atom reached from the first shell along conjugating bonds and
\* every bond of those chains.
GrowsAlongConjugation ==
    (mol.n > 0 /\ Plain(mol)) =>
        \A b \in DOMAIN frags :
            IF Conjugating(mol) = {}
            THEN /\ frags[b].atoms =
                        FirstShell(mol, b) \cup {GetBgn(mol, b), GetEnd(mol, b)}
                 /\ frags[b].bonds = Attached(mol, b)
            ELSE /\ AtomsReached(mol, Outward(mol, b), FirstShell(mol, b))
                        \subseteq frags[b].atoms
                 /\ {e \in Outward(mol, b) :
                        {GetBgn(mol, e), GetEnd(mol, e)} \subseteq
                            AtomsReached(mol, Outward(mol, b), FirstShell(mol, b))}
                        \subseteq frags[b].bonds

\* C23: every run of _build_frag comes to its end: it returns the fragment
\* or a ValueError leaves it.
GrowthTerminates == <>(pc \in {"built", "raised"})

\* the fragment grown matches what the recursion is defined to return
BuiltAsDefined ==
    pc = "built" =>
        /\ frags[cursor].atoms = BuildFrag(TaggedCtx, cursor).atoms
        /\ frags[cursor].bonds = BuildFrag(TaggedCtx, cursor).bonds

\* a fragment returned after a recursive call was made from the outermost
\* frame and the recursion reached the atoms of a ring
GrownThroughRecursion ==
    /\ pc = "built"
    /\ \E s \in 1..2 :
           /\ ret[s].i > 0
           /\ \E a \in ret[s].A : AtomIsInRing(mol, a)

\* the two bonds have a bond of one's atoms among the bonds of the other's
SharesAdjacent(m, e, f) ==
    \E x \in Bonds(m) :
        /\ {GetBgn(m, x), GetEnd(m, x)} \cap {GetBgn(m, e), GetEnd(m, e)} # {}
        /\ {GetBgn(m, x), GetEnd(m, x)} \cap {GetBgn(m, f), GetEnd(m, f)} # {}

\* bond e is ortho to the rotatable bond, directly or through the connecting
\* bond when that is not a ring bond
Ortho(m, e, rotor, connecting) ==
    \/ SharesAdjacent(m, e, rotor)
    \/ ~IsInRing(m, connecting) /\ SharesAdjacent(m, e, connecting)

\* the bonds from an atom of ring system r to an atom outside it
Leaving(m, r) ==
    {e \in Bonds(m) : Cardinality({x \in {GetBgn(m, e), GetEnd(m, e)} : m.parts[x] = r}) = 1}

\* the end of bond e that is outside ring system r
Outer(m, r, e) == IF m.parts[GetBgn(m, e)] = r THEN GetEnd(m, e) ELSE GetBgn(m, e)

\* the bonds leaving ring system r whose far end is kept
KeptBonds(m, r, rotor, connecting) ==
    {e \in Leaving(m, r) :
        \/ ~AtomIsInRing(m, Outer(m, r, e)) /\ ~IsRotor(m, e)
        \/ Ortho(m, e, rotor, connecting)}

\* what comes with the far end x of a kept bond: its functional group when it
\* is outside rings, its whole ring system otherwise
ComesWith(c, x) ==
    IF AtomIsInRing(c.m, x) THEN c.rings[c.aRing[x]]
    ELSE [atoms |-> {x} \cup IsFgroup(c, x).atoms, bonds |-> IsFgroup(c, x).bonds]

\* the substituents of ring system r as the rule gives them
SubstituentsByRule(c, r, rotor, connecting) ==
    [atoms |-> UNION {ComesWith(c, Outer(c.m, r, e)).atoms :
                         e \in KeptBonds(c.m, r, rotor, connecting)},
     bonds |-> KeptBonds(c.m, r, rotor, connecting)
               \cup UNION {ComesWith(c, Outer(c.m, r, e)).bonds :
                              e \in KeptBonds(c.m, r, rotor, connecting)}]

\* every atom and bond of x is in y
Within(x, y) == x.atoms \subseteq y.atoms /\ x.bonds \subseteq y.bonds

\* rs, kept for ring system r, follows the rule: an atom outside rings on a
\* non-rotatable bond is kept with the bond and its functional group; a
\* neighbouring ring system kept by its bond is kept whole; nothing is kept
\* that the rule does not give
FollowsRule(c, r, rotor, connecting, rs) ==
    /\ \A e \in Leaving(c.m, r) :
           /\ (~AtomIsInRing(c.m, Outer(c.m, r, e)) /\ ~IsRotor(c.m, e)) =>
                  e \in rs.bonds /\ Within(ComesWith(c, Outer(c.m, r, e)), rs)
           /\ (/\ AtomIsInRing(c.m, Outer(c.m, r, e))
               /\ e \in rs.bonds
               /\ Outer(c.m, r, e) \in rs.atoms) =>
                  Within(ComesWith(c, Outer(c.m, r, e)), rs)
    /\ Within(rs, SubstituentsByRule(c, r, rotor, connecting))

\* the calls of _ring_substiuents the outermost frame can make at its atom:
\* the ring system and the connecting bond
RingCalls ==
    IF pc = "iterate" /\ Len(stack) = 1
    THEN {<<r, GetBond(mol, a, Top.atom)>> :
             <<r, a>> \in {q \in (RingSystems(mol) \X Atoms(mol)) :
                             /\ GetBond(mol, q[2], Top.atom) # 0
                             /\ q[2] # Top.pair
                             /\ q[1] \in {atomRing[q[2]], atomRing[Top.atom]}}}
    ELSE {}

\* C24: what _ring_substiuents keeps with a ring system absorbed into the
\* fragment: every atom outside rings on a non-rotatable bond of the ring,
\* with that bond and the atom's functional group; an atom on a rotatable
\* bond, or a neighbouring ring system, only when its bond is ortho to the
\* rotatable bond the fragment is built on (directly, or through the
\* connecting bond when that is not a ring bond); and a neighbouring ring
\* system that is kept is kept whole.
SubstituentsKeptByRule ==
    \A q \in RingCalls :
        \A rs \in {RingSubstituents(TaggedCtx, q[2], cursor, q[1])} :
            FollowsRule(TaggedCtx, q[1], cursor, q[2], rs)

=========================================================================
